---------------------------- MODULE Spec2Model ----------------------------
(***************************************************************************)
(* A model of backup.py: the inventory of user databases, the dump         *)
(* producer, the main control flow and the retention sweep over a          *)
(* paginated object listing.                                               *)
(*                                                                         *)
(* Python strings that the code slices, splits or parses are sequences of  *)
(* one-character strings (object keys, timestamps) or sequences of tokens  *)
(* (the output of the mysql client: names and "\n"), so that endswith,     *)
(* slicing, rsplit, strip, split and strptime are computed, not assumed.   *)
(***************************************************************************)
EXTENDS Integers, Sequences, FiniteSets, TLC

VARIABLES
    \* ---- main(), get_user_databases(), dump_databases()
    serverDbs,        \* the database names the server holds, in the order it lists them
    mysqlReturncode,  \* exit status the mysql client will have
    pc,               \* position of main(): "start", "fetched", "exit"
    exitStatus,       \* process exit status once main() has ended, else -1
    user_databases,   \* main's local variable (line 181)
    spawned,          \* external processes started so far, in order
    files,            \* local dump files that exist
    uploaded,         \* object names main has uploaded (line 205 is never reached)
    dumpCall,         \* the last direct dump_databases call and how it ended
    \* ---- cleanup_old_backups() and the object store
    bucket,           \* the keys stored in the bucket (indices into KeyUniverse)
    clock,            \* what datetime.utcnow() returns (index into Instants)
    prefix,           \* args.prefix
    retention_days,   \* args.retention_days
    spc,              \* position of cleanup_old_backups: "idle", "list", "page", "done", "raised"
    cutoff,           \* local variable cutoff (line 121)
    continuation_token, \* local variable (line 123/157); 0 is None
    response,         \* the last list_objects_v2 response
    idx,              \* position of the for loop in response["Contents"]
    run,              \* bookkeeping of the sweep in progress (not program state)
    prev              \* bookkeeping of the last completed sweep (not program state)

mainVars  == <<serverDbs, mysqlReturncode, pc, exitStatus, user_databases,
               spawned, files, uploaded, dumpCall>>
sweepVars == <<bucket, clock, prefix, retention_days, spc, cutoff,
               continuation_token, response, idx, run, prev>>
vars == <<mainVars, sweepVars>>

---------------------------------------------------------------------------
(* Bounds of the model *)

\* most database names the server lists
MaxDbs == 3
\* most objects in the bucket when the model starts
MaxObjects == 5
\* keys per listing page (the store's page size)
PageSize == 2

---------------------------------------------------------------------------
(* Program constants *)

DEFAULT_RETENTION_DAYS == 7

SYSTEM_DATABASES ==
    {"information_schema", "performance_schema", "mysql", "sys"}

---------------------------------------------------------------------------
(* Characters and numbers *)

Digits == <<"0", "1", "2", "3", "4", "5", "6", "7", "8", "9">>

IsDigit(c) == \E i \in 1..10 : Digits[i] = c

DigitValue(c) == (CHOOSE i \in 1..10 : Digits[i] = c) - 1

\* the character at position p (1-based), "" past the end
At(s, p) == IF p >= 1 /\ p <= Len(s) THEN s[p] ELSE ""

DigitIn(c, lo, hi) == IsDigit(c) /\ DigitValue(c) \in lo..hi

\* int() of a string of digits and blanks (int() ignores surrounding blanks)
RECURSIVE IntOf(_)
IntOf(s) ==
    IF s = <<>> THEN 0
    ELSE IF IsDigit(s[Len(s)])
         THEN 10 * IntOf(SubSeq(s, 1, Len(s) - 1)) + DigitValue(s[Len(s)])
         ELSE IntOf(SubSeq(s, 1, Len(s) - 1))

RECURSIVE SumSeq(_)
SumSeq(s) == IF s = <<>> THEN 0 ELSE Head(s) + SumSeq(Tail(s))

---------------------------------------------------------------------------
(* datetime: a point in time is [ord, sec, us]: the proleptic Gregorian    *)
(* ordinal of the day, the second of the day and the microsecond.          *)

IsLeap(y) == y % 4 = 0 /\ (y % 100 # 0 \/ y % 400 = 0)

DaysInMonth(y, m) ==
    IF m = 2 THEN (IF IsLeap(y) THEN 29 ELSE 28)
    ELSE IF m \in {4, 6, 9, 11} THEN 30 ELSE 31

RECURSIVE DaysBeforeMonth(_, _)
DaysBeforeMonth(y, m) ==
    IF m = 1 THEN 0 ELSE DaysBeforeMonth(y, m - 1) + DaysInMonth(y, m - 1)

DaysBeforeYear(y) ==
    (y - 1) * 365 + ((y - 1) \div 4) - ((y - 1) \div 100) + ((y - 1) \div 400)

Ordinal(y, m, d) == DaysBeforeYear(y) + DaysBeforeMonth(y, m) + d

DateTime(y, m, d, H, M, S, us) ==
    [ord |-> Ordinal(y, m, d), sec |-> (H * 60 + M) * 60 + S, us |-> us]

\* a < b on datetimes
Before(a, b) ==
    \/ a.ord < b.ord
    \/ a.ord = b.ord /\ a.sec < b.sec
    \/ a.ord = b.ord /\ a.sec = b.sec /\ a.us < b.us

\* (mutant of MinusDays) the window is added to the clock
PlusDays(t, n) == [t EXCEPT !.ord = t.ord + n]

\* t - timedelta(days=n)
MinusDays(t, n) == [t EXCEPT !.ord = t.ord - n]

---------------------------------------------------------------------------
(* datetime.strptime(s, "%Y%m%d-%H%M%S").  The format compiles to the      *)
(* regular expression                                                      *)
(*   (\d\d\d\d)(1[0-2]|0[1-9]|[1-9])(3[0-1]|[1-2]\d|0[1-9]|[1-9]| [1-9])-  *)
(*   (2[0-3]|[0-1]\d|\d)([0-5]\d|\d)(6[0-1]|[0-5]\d|\d)                    *)
(* matched at the start of s with ordered alternatives and backtracking;   *)
(* text left over after the match, or field values that are no datetime,   *)
(* raise ValueError.                                                       *)

NoTime == [ord |-> 0, sec |-> 0, us |-> 0]

Opt(cond, w) == IF cond THEN <<w>> ELSE <<>>

\* the widths of the alternatives of field f that match s at p, in the
\* order the regular expression tries them
FieldAlts(f, s, p) ==
    LET c1 == At(s, p)
        c2 == At(s, p + 1)
    IN  CASE f = 1 ->   \* %Y
               Opt(/\ IsDigit(c1) /\ IsDigit(c2)
                   /\ IsDigit(At(s, p + 2)) /\ IsDigit(At(s, p + 3)), 4)
          [] f = 2 ->   \* %m
               Opt(c1 = "1" /\ DigitIn(c2, 0, 2), 2)
               \o Opt(c1 = "0" /\ DigitIn(c2, 1, 9), 2)
               \o Opt(DigitIn(c1, 1, 9), 1)
          [] f = 3 ->   \* %d
               Opt(c1 = "3" /\ DigitIn(c2, 0, 1), 2)
               \o Opt(DigitIn(c1, 1, 2) /\ IsDigit(c2), 2)
               \o Opt(c1 = "0" /\ DigitIn(c2, 1, 9), 2)
               \o Opt(DigitIn(c1, 1, 9), 1)
               \o Opt(c1 = " " /\ DigitIn(c2, 1, 9), 2)
          [] f = 4 ->   \* the literal "-"
               Opt(c1 = "-", 1)
          [] f = 5 ->   \* %H
               Opt(c1 = "2" /\ DigitIn(c2, 0, 3), 2)
               \o Opt(DigitIn(c1, 0, 1) /\ IsDigit(c2), 2)
               \o Opt(IsDigit(c1), 1)
          [] f = 6 ->   \* %M
               Opt(DigitIn(c1, 0, 5) /\ IsDigit(c2), 2)
               \o Opt(IsDigit(c1), 1)
          [] f = 7 ->   \* %S
               Opt(c1 = "6" /\ DigitIn(c2, 0, 1), 2)
               \o Opt(DigitIn(c1, 0, 5) /\ IsDigit(c2), 2)
               \o Opt(IsDigit(c1), 1)

RECURSIVE ReMatch(_, _, _)
RECURSIVE FirstAlt(_, _, _, _)

\* the first way, in the regular expression's order, to match fields f..7
\* of the pattern from position p
ReMatch(s, f, p) ==
    IF f > 7 THEN [ok |-> TRUE, widths |-> <<>>]
    ELSE FirstAlt(s, f, p, FieldAlts(f, s, p))

FirstAlt(s, f, p, alts) ==
    IF alts = <<>> THEN [ok |-> FALSE, widths |-> <<>>]
    ELSE LET rest == ReMatch(s, f + 1, p + Head(alts))
         IN  IF rest.ok
             THEN [ok |-> TRUE, widths |-> <<Head(alts)>> \o rest.widths]
             ELSE FirstAlt(s, f, p, Tail(alts))

\* the text of field f of a match with the given widths
FieldText(s, widths, f) ==
    LET start == 1 + SumSeq(SubSeq(widths, 1, f - 1))
    IN  SubSeq(s, start, start + widths[f] - 1)

strptime(s) ==
    LET m == ReMatch(s, 1, 1)
    IN  IF ~m.ok THEN [exc |-> "ValueError", time |-> NoTime]
        ELSE IF SumSeq(m.widths) # Len(s)
        THEN [exc |-> "ValueError", time |-> NoTime]
        ELSE LET Y  == IntOf(FieldText(s, m.widths, 1))
                 mo == IntOf(FieldText(s, m.widths, 2))
                 d  == IntOf(FieldText(s, m.widths, 3))
                 H  == IntOf(FieldText(s, m.widths, 5))
                 M  == IntOf(FieldText(s, m.widths, 6))
                 S  == IntOf(FieldText(s, m.widths, 7))
             IN  IF Y < 1 \/ d > DaysInMonth(Y, mo) \/ S > 59
                 THEN [exc |-> "ValueError", time |-> NoTime]
                 ELSE [exc |-> "None", time |-> DateTime(Y, mo, d, H, M, S, 0)]

---------------------------------------------------------------------------
(* Python string operations on sequences *)

\* s.startswith(p)
StartsWith(s, p) == Len(s) >= Len(p) /\ SubSeq(s, 1, Len(p)) = p

\* s.endswith(p)
EndsWith(s, p) ==
    Len(s) >= Len(p) /\ SubSeq(s, Len(s) - Len(p) + 1, Len(s)) = p

\* s[:-n]
DropLast(s, n) == SubSeq(s, 1, Len(s) - n)

\* s[:n]
Take(s, n) == IF n >= Len(s) THEN s ELSE SubSeq(s, 1, n)

\* the positions of s that hold sep
Positions(s, sep) == {i \in 1..Len(s) : s[i] = sep}

Max(S) == CHOOSE x \in S : \A y \in S : y <= x

Min(S) == CHOOSE x \in S : \A y \in S : x <= y

\* s.rsplit(sep, maxsplit): split at the last maxsplit occurrences of sep
RECURSIVE rsplit(_, _, _)
rsplit(s, sep, maxsplit) ==
    IF maxsplit = 0 \/ Positions(s, sep) = {} THEN <<s>>
    ELSE LET i == Max(Positions(s, sep))
         IN  rsplit(SubSeq(s, 1, i - 1), sep, maxsplit - 1)
             \o <<SubSeq(s, i + 1, Len(s))>>

\* s.split(sep): split at every occurrence of sep; "".split(sep) is [""]
RECURSIVE split(_, _)
split(s, sep) ==
    IF Positions(s, sep) = {} THEN <<s>>
    ELSE LET i == Min(Positions(s, sep))
         IN  <<SubSeq(s, 1, i - 1)>> \o split(SubSeq(s, i + 1, Len(s)), sep)

Whitespace == {" ", "\n", "\t", "\r"}

\* s.strip(): drop leading and trailing whitespace
RECURSIVE strip(_)
strip(s) ==
    IF s = <<>> THEN s
    ELSE IF Head(s) \in Whitespace THEN strip(Tail(s))
    ELSE IF s[Len(s)] \in Whitespace THEN strip(DropLast(s, 1))
    ELSE s

\* the text of a sequence of tokens, as one string
RECURSIVE Text(_)
Text(s) == IF s = <<>> THEN "" ELSE Head(s) \o Text(Tail(s))

\* [f(x) for x in s]
MapSeq(s, F(_)) == [i \in 1..Len(s) |-> F(s[i])]

---------------------------------------------------------------------------
(* get_user_databases *)

\* the names a server may hold
DatabaseNames == SYSTEM_DATABASES \cup {"app", "shop"}

\* what `mysql -N -e "SHOW DATABASES;"` prints: one name per line
RECURSIVE ShowDatabases(_)
ShowDatabases(dbs) ==
    IF dbs = <<>> THEN <<>>
    ELSE <<Head(dbs), "\n">> \o ShowDatabases(Tail(dbs))

NotSystem(db) == db \notin SYSTEM_DATABASES

\* lines 59-62: the value returned for the client's standard output
FilterUserDatabases(stdout) ==
    LET all_dbs == MapSeq(split(strip(stdout), "\n"), Text)
    IN  SelectSeq(all_dbs, NotSystem)

\* lines 56-62: [raised, value] for the client's exit status and output
get_user_databases(returncode, stdout) ==
    IF returncode # 0
    THEN [raised |-> "Exception", value |-> <<>>]
    ELSE [raised |-> "None", value |-> FilterUserDatabases(stdout)]

---------------------------------------------------------------------------
(* dump_databases *)

\* (mutant of CheckedRun) check=False: the exit status is ignored
UncheckedRun(returncode) == "None"

\* line 79, subprocess.run(cmd, check=True): the exception for an exit status
CheckedRun(returncode) ==
    IF returncode # 0 THEN "CalledProcessError" ELSE "None"

\* (mutant of dump_databases) without the test of line 68
DumpWithoutEmptyCheck(db_list, dump_file, returncode, procs, fs) ==
    [raised  |-> CheckedRun(returncode),
     spawned |-> Append(procs, "mysqldump"),
     files   |-> fs \cup {dump_file}]

\* lines 68-79: the outcome of dump_databases(user, socket, db_list,
\* dump_file) when mysqldump would exit with returncode, given the processes
\* started and the files present before the call
dump_databases(db_list, dump_file, returncode, procs, fs) ==
    IF db_list = <<>>
    THEN [raised |-> "ValueError", spawned |-> procs, files |-> fs]
    ELSE [raised  |-> CheckedRun(returncode),
          spawned |-> Append(procs, "mysqldump"),
          files   |-> fs \cup {dump_file}]

---------------------------------------------------------------------------
(* Object keys *)

KeyUniverse == <<
    \* 1: 20221231-235959.sql
    <<"2","0","2","2","1","2","3","1","-","2","3","5","9","5","9",".","s",
      "q","l">>,
    \* 2: db-2022111-111.sql
    <<"d","b","-","2","0","2","2","1","1","1","-","1","1","1",".","s","q",
      "l">>,
    \* 3: db-20221231-235959.sql
    <<"d","b","-","2","0","2","2","1","2","3","1","-","2","3","5","9","5",
      "9",".","s","q","l">>,
    \* 4: db-20221231-235959.sql.gz
    <<"d","b","-","2","0","2","2","1","2","3","1","-","2","3","5","9","5",
      "9",".","s","q","l",".","g","z">>,
    \* 5: db-20230101-000000.sql
    <<"d","b","-","2","0","2","3","0","1","0","1","-","0","0","0","0","0",
      "0",".","s","q","l">>,
    \* 6: db-20230101.sql
    <<"d","b","-","2","0","2","3","0","1","0","1",".","s","q","l">>,
    \* 7: db-20230231-000000.sql
    <<"d","b","-","2","0","2","3","0","2","3","1","-","0","0","0","0","0",
      "0",".","s","q","l">>,
    \* 8: db-20990101-000000.sql
    <<"d","b","-","2","0","9","9","0","1","0","1","-","0","0","0","0","0",
      "0",".","s","q","l">>,
    \* 9: db-not-a-date.sql
    <<"d","b","-","n","o","t","-","a","-","d","a","t","e",".","s","q",
      "l">>,
    \* 10: db-x-20221230-120000.sql
    <<"d","b","-","x","-","2","0","2","2","1","2","3","0","-","1","2","0",
      "0","0","0",".","s","q","l">>,
    \* 11: zz-20221231-235959.sql
    <<"z","z","-","2","0","2","2","1","2","3","1","-","2","3","5","9","5",
      "9",".","s","q","l">>
>>

Keys == 1..Len(KeyUniverse)

\* the key prefixes the program may be run with
Prefixes == {<<"d", "b">>, <<"2">>}

\* the readings of the clock, in increasing order
Instants == <<
    DateTime(2023, 1, 8, 0, 0, 0, 0),
    DateTime(2023, 1, 8, 0, 0, 0, 1),
    DateTime(2023, 1, 9, 0, 0, 1, 0)
>>

\* the retention windows the program may be run with
RetentionChoices == {1, DEFAULT_RETENTION_DAYS}

SqlSuffix == <<".", "s", "q", "l">>

\* lines 146-148: the try block, [exc, time]
ParseBackupTime(key) ==
    LET base_name == DropLast(key, 4)
        parts == rsplit(base_name, "-", 2)
    IN  IF Len(parts) < 3
        THEN [exc |-> "IndexError", time |-> NoTime]
        ELSE strptime(parts[2] \o <<"-">> \o parts[3])

\* (mutant of Caught) `except ValueError`
CaughtValueErrorOnly(exc) == exc = "ValueError"

\* line 149, `except Exception`: the exceptions the handler catches
Caught(exc) == exc \in {"IndexError", "ValueError"}

\* (mutant of IsOld) `backup_time <= cutoff`
IsOldOrEqual(backup_time, cutoff_time) == ~Before(cutoff_time, backup_time)

\* line 152
IsOld(backup_time, cutoff_time) == Before(backup_time, cutoff_time)

\* the outcome of the try block for every key (computed once)
ParsedKey == [k \in Keys |-> ParseBackupTime(KeyUniverse[k])]

\* lines 141-154: what the loop body does with one listed key:
\* "skip" (continue), "delete" or "raise"
ObjectAction(k, cutoff_time) ==
    LET key == KeyUniverse[k]
    IN  IF ~EndsWith(key, SqlSuffix) THEN "skip"
        ELSE LET parsed == ParsedKey[k]
             IN  IF parsed.exc # "None"
                 THEN (IF Caught(parsed.exc) THEN "skip" ELSE "raise")
                 ELSE IF IsOld(parsed.time, cutoff_time) THEN "delete"
                 ELSE "skip"

---------------------------------------------------------------------------
(* The object store *)

RECURSIVE SortedSeq(_)
SortedSeq(S) ==
    IF S = {} THEN <<>> ELSE <<Min(S)>> \o SortedSeq(S \ {Min(S)})

\* the keys that start with each prefix (computed once)
UnderPrefix ==
    [pfx \in Prefixes |-> {k \in Keys : StartsWith(KeyUniverse[k], pfx)}]

NoResponse ==
    [Contents |-> <<>>, IsTruncated |-> FALSE, NextContinuationToken |-> 0]

\* lines 125-135, s3_client.list_objects_v2: keys are listed in key order,
\* PageSize to a page, and a page's continuation token stands for its last
\* key.  Contents is <<>> when the response has no "Contents";
\* NextContinuationToken is 0 when the response has none, which a store may
\* do even on a truncated page (omit).
list_objects_v2(objects, pfx, token, omit) ==
    LET matching == {k \in objects : k \in UnderPrefix[pfx] /\ k > token}
        listed == SortedSeq(matching)
        page == Take(listed, PageSize)
        truncated == Len(listed) > PageSize
    IN  [Contents |-> page,
         IsTruncated |-> truncated,
         NextContinuationToken |->
            IF truncated /\ ~omit THEN page[Len(page)] ELSE 0]

---------------------------------------------------------------------------
(* main, get_user_databases and dump_databases as a state machine *)

Range(s) == {s[i] : i \in 1..Len(s)}

\* the sequences of distinct elements of S no longer than n
DistinctSeqs(S, n) ==
    {s \in UNION {[1..m -> S] : m \in 0..n} :
        \A i, j \in 1..Len(s) : i # j => s[i] # s[j]}

NoDumpCall ==
    [called |-> FALSE, db_list |-> <<>>, returncode |-> 0, raised |-> "None",
     spawnedBefore |-> <<>>, filesBefore |-> {}]

\* what is recorded about a sweep: the bucket and the clock when it started,
\* the keys it deleted, the keys its pages listed, the continuation tokens
\* it passed (0 for none) and whether it passed one of them twice
NoRun ==
    [start |-> {}, now |-> NoTime, deleted |-> {}, listed |-> {},
     requested |-> {}, repeated |-> FALSE]

NoPrev == [valid |-> FALSE, run |-> NoRun]

\* the state of main and of the dump before anything has run
MainQuiet ==
    /\ pc = "start"
    /\ exitStatus = -1
    /\ user_databases = <<>>
    /\ spawned = <<>>
    /\ files = {}
    /\ uploaded = {}
    /\ dumpCall = NoDumpCall

\* the state of cleanup_old_backups before it has been called
SweepQuiet ==
    /\ clock = 1
    /\ spc = "idle"
    /\ cutoff = NoTime
    /\ continuation_token = 0
    /\ response = NoResponse
    /\ idx = 0
    /\ run = NoRun
    /\ prev = NoPrev

\* lines 180-181: the call of get_user_databases; an exception that leaves
\* main ends the process with status 1
MainFetchDatabases ==
    /\ pc = "start"
    /\ LET r == get_user_databases(mysqlReturncode, ShowDatabases(serverDbs))
       IN  /\ spawned' = Append(spawned, "mysql")
           /\ IF r.raised # "None"
              THEN /\ pc' = "exit"
                   /\ exitStatus' = 1
                   /\ UNCHANGED user_databases
              ELSE /\ pc' = "fetched"
                   /\ user_databases' = r.value
                   /\ UNCHANGED exitStatus
    /\ UNCHANGED <<serverDbs, mysqlReturncode, files, uploaded, dumpCall>>
    /\ UNCHANGED sweepVars

\* lines 182-184: `if not user_databases: ... return`
MainNoDatabases ==
    /\ pc = "fetched"
    /\ user_databases = <<>>
    /\ pc' = "exit"
    /\ exitStatus' = 0
    /\ UNCHANGED <<serverDbs, mysqlReturncode, user_databases, spawned, files,
                   uploaded, dumpCall>>
    /\ UNCHANGED sweepVars

\* lines 186-188: the databases are printed and main returns; the statements
\* after the return of line 188 (lines 190-225) are never executed
MainFoundReturn ==
    /\ pc = "fetched"
    /\ user_databases # <<>>
    /\ pc' = "exit"
    /\ exitStatus' = 0
    /\ UNCHANGED <<serverDbs, mysqlReturncode, user_databases, spawned, files,
                   uploaded, dumpCall>>
    /\ UNCHANGED sweepVars

\* the database lists, dump files and mysqldump exit statuses of a call
DumpLists == DistinctSeqs(DatabaseNames, MaxDbs)

DumpFiles == {"db-20230108-000000.sql"}

DumpReturncodes == {0, 2}

\* a call of dump_databases (lines 64-79)
CallDumpDatabases ==
    /\ ~dumpCall.called
    /\ \E db_list \in DumpLists, dump_file \in DumpFiles,
          returncode \in DumpReturncodes :
          LET r == dump_databases(db_list, dump_file, returncode,
                                  spawned, files)
          IN  /\ spawned' = r.spawned
              /\ files' = r.files
              /\ dumpCall' = [called |-> TRUE, db_list |-> db_list,
                              returncode |-> returncode, raised |-> r.raised,
                              spawnedBefore |-> spawned,
                              filesBefore |-> files]
    /\ UNCHANGED <<serverDbs, mysqlReturncode, pc, exitStatus, user_databases,
                   uploaded>>
    /\ UNCHANGED sweepVars

MainInit ==
    /\ serverDbs \in DistinctSeqs(DatabaseNames, MaxDbs)
    /\ mysqlReturncode \in {0, 1}
    /\ MainQuiet
    /\ bucket = {3, 5, 8}
    /\ prefix = <<"d", "b">>
    /\ retention_days = DEFAULT_RETENTION_DAYS
    /\ SweepQuiet

MainNext ==
    \/ MainFetchDatabases
    \/ MainNoDatabases
    \/ MainFoundReturn

MainSpec == MainInit /\ [][MainNext]_vars

\* dump_databases called on its own
DumpInit ==
    /\ serverDbs = <<>>
    /\ mysqlReturncode = 0
    /\ MainQuiet
    /\ bucket = {3, 5, 8}
    /\ prefix = <<"d", "b">>
    /\ retention_days = DEFAULT_RETENTION_DAYS
    /\ SweepQuiet

DumpNext == CallDumpDatabases

DumpSpec == DumpInit /\ [][DumpNext]_vars

---------------------------------------------------------------------------
(* cleanup_old_backups as a state machine *)

\* (mutant of HasMorePages) the first page is taken for the whole listing
NeverMorePages(r) == FALSE

\* line 156: `if response.get("IsTruncated")`
HasMorePages(r) == r.IsTruncated

\* lines 120-123: now, cutoff and continuation_token are set
StartSweep ==
    /\ spc \in {"idle", "done"}
    /\ cutoff' = MinusDays(Instants[clock], retention_days)
    /\ continuation_token' = 0
    /\ spc' = "list"
    /\ prev' = IF spc = "done" THEN [valid |-> TRUE, run |-> run] ELSE prev
    /\ run' = [NoRun EXCEPT !.start = bucket, !.now = Instants[clock]]
    /\ UNCHANGED <<bucket, clock, prefix, retention_days, response, idx>>
    /\ UNCHANGED mainVars

\* lines 125-138: one page is requested; a response without "Contents"
\* ends the sweep
ListPage ==
    /\ spc = "list"
    /\ \E omit \in BOOLEAN :
          LET r == list_objects_v2(bucket, prefix, continuation_token, omit)
          IN  /\ response' = r
              /\ run' = [run EXCEPT
                            !.requested = @ \cup {continuation_token},
                            !.repeated = @ \/ continuation_token \in run.requested,
                            !.listed = @ \cup Range(r.Contents)]
              /\ IF r.Contents = <<>>
                 THEN spc' = "done" /\ idx' = 0
                 ELSE spc' = "page" /\ idx' = 1
    /\ UNCHANGED <<bucket, clock, prefix, retention_days, cutoff,
                   continuation_token, prev>>
    /\ UNCHANGED mainVars

\* lines 140-154: the loop body for the next object of the page; a deletion
\* is sent to the store at once
ProcessObject ==
    /\ spc = "page"
    /\ idx <= Len(response.Contents)
    /\ LET k == response.Contents[idx]
           act == ObjectAction(k, cutoff)
       IN  /\ spc' = IF act = "raise" THEN "raised" ELSE "page"
           /\ idx' = IF act = "raise" THEN idx ELSE idx + 1
           /\ bucket' = IF act = "delete" THEN bucket \ {k} ELSE bucket
           /\ run' = IF act = "delete"
                     THEN [run EXCEPT !.deleted = @ \cup {k}]
                     ELSE run
    /\ UNCHANGED <<clock, prefix, retention_days, cutoff, continuation_token,
                   response, prev>>
    /\ UNCHANGED mainVars

\* lines 156-159: after the last object of the page
EndPage ==
    /\ spc = "page"
    /\ idx > Len(response.Contents)
    /\ IF HasMorePages(response)
       THEN /\ continuation_token' = response.NextContinuationToken
            /\ spc' = "list"
       ELSE /\ spc' = "done"
            /\ UNCHANGED continuation_token
    /\ UNCHANGED <<bucket, clock, prefix, retention_days, cutoff, response,
                   idx, run, prev>>
    /\ UNCHANGED mainVars

\* time passes between two sweeps (a sweep reads the clock once, line 120)
Tick ==
    /\ spc \in {"idle", "done"}
    /\ \E c \in (clock + 1)..Len(Instants) : clock' = c
    /\ UNCHANGED <<bucket, prefix, retention_days, spc, cutoff,
                   continuation_token, response, idx, run, prev>>
    /\ UNCHANGED mainVars

Init ==
    /\ serverDbs = <<>>
    /\ mysqlReturncode = 0
    /\ MainQuiet
    /\ bucket \in {S \in SUBSET Keys : Cardinality(S) <= MaxObjects}
    /\ prefix \in Prefixes
    /\ retention_days \in RetentionChoices
    /\ SweepQuiet

Next ==
    \/ StartSweep
    \/ ListPage
    \/ ProcessObject
    \/ EndPage
    \/ Tick

Spec == Init /\ [][Next]_vars

---------------------------------------------------------------------------
(* Vocabulary of the properties, stated from the key format                *)
(* <prefix>-YYYYMMDD-HHMMSS.sql and not from the loop body                 *)

\* the '-'-delimited segments of a key's name without its four-character
\* suffix
Segments(key) == split(DropLast(key, 4), "-")

\* the last two segments, joined as a timestamp text
TimestampText(key) ==
    LET segs == Segments(key)
    IN  segs[Len(segs) - 1] \o <<"-">> \o segs[Len(segs)]

\* the keys that end in ".sql"
SqlKeys == {k \in Keys : EndsWith(KeyUniverse[k], SqlSuffix)}

\* the .sql keys whose last two segments are a timestamp the format accepts
LastTwoParse ==
    {k \in SqlKeys :
        /\ Len(Segments(KeyUniverse[k])) >= 2
        /\ strptime(TimestampText(KeyUniverse[k])).exc = "None"}

\* the .sql keys of at least three segments (something, a date, a time)
\* whose last two segments are a timestamp the format accepts
Timestamped ==
    {k \in LastTwoParse : Len(Segments(KeyUniverse[k])) >= 3}

\* the .sql keys whose timestamp cannot be parsed: too few segments, or
\* segments that are no timestamp
Unparseable == SqlKeys \ Timestamped

KeyTime == [k \in LastTwoParse |-> strptime(TimestampText(KeyUniverse[k])).time]

\* now minus the retention window, for the sweep recorded in r
CutoffOf(r) == [r.now EXCEPT !.ord = @ - retention_days]

\* the keys the listing of the sweep recorded in r holds
ListedAtStart(r) == {k \in r.start : StartsWith(KeyUniverse[k], prefix)}

\* the keys among S whose timestamp is strictly earlier than the cutoff of r
OlderThanCutoff(S, r) == {k \in S : Before(KeyTime[k], CutoffOf(r))}

\* the objects the sweep recorded in r has to delete
Eligible(r) == OlderThanCutoff(ListedAtStart(r) \cap Timestamped, r)

\* the number of listed keys that precede k in the listing
ListedBefore(r, k) == Cardinality({j \in ListedAtStart(r) : j < k})

SweepDone == spc = "done"

---------------------------------------------------------------------------
(* C1 *)

\* C1 (as stated): a run whose inventory returned at least one user
\* database and that ended with status 0 has run the dump, uploaded it and
\* run the retention sweep.
C1_DumpUploadSweepBeforeSuccess ==
    (/\ pc = "exit"
     /\ exitStatus = 0
     /\ \E n \in Range(user_databases) : n \in DatabaseNames \ SYSTEM_DATABASES)
        => /\ "mysqldump" \in Range(spawned)
           /\ uploaded # {}
           /\ spc = "done"

---------------------------------------------------------------------------
(* C2 *)

\* C2 (as stated): when a sweep has completed, the deleted objects are
\* exactly the listed keys that end in ".sql", whose last two '-'-delimited
\* segments parse as a timestamp and whose timestamp is strictly earlier than
\* now minus the retention days; keys at or after the cutoff and keys without
\* the suffix are still present.
C2_DeletedExactlyLastTwoParse ==
    SweepDone =>
        /\ run.deleted = OlderThanCutoff(ListedAtStart(run) \cap LastTwoParse, run)
        /\ \A k \in run.start :
              (k \notin SqlKeys
               \/ (k \in LastTwoParse /\ ~Before(KeyTime[k], CutoffOf(run))))
                  => k \in bucket

\* C2 (amended): when a sweep has completed, the deleted objects are exactly
\* the listed keys that end in ".sql", have at least three '-'-delimited
\* segments before the suffix, whose last two segments are accepted by the
\* timestamp format and whose timestamp is strictly earlier than now minus
\* the retention days; every other key of the bucket is still present.
C2_DeletedExactlyEligible ==
    SweepDone =>
        /\ run.deleted = Eligible(run)
        /\ bucket = run.start \ Eligible(run)
        /\ \A k \in run.start :
              (k \notin SqlKeys
               \/ (k \in Timestamped /\ ~Before(KeyTime[k], CutoffOf(run))))
                  => k \in bucket

\* C2 witness: a completed sweep that deleted an object and left in place a
\* listed object whose timestamp equals the cutoff and a listed key without
\* the suffix.
C2_Witness ==
    /\ SweepDone
    /\ run.deleted # {}
    /\ \E k \in ListedAtStart(run) \cap Timestamped :
          KeyTime[k] = CutoffOf(run) /\ k \in bucket
    /\ \E k \in ListedAtStart(run) : k \notin SqlKeys /\ k \in bucket

---------------------------------------------------------------------------
(* C3 *)

---------------------------------------------------------------------------
(* C4 *)

\* C4: every request after the first passes the continuation token of the
\* response before it, and when the sweep has completed every listed key
\* has been on a page and the deleted objects are exactly the eligible
\* objects of all pages: none on a second or later page is left.
C4_AllPagesSwept ==
    /\ (spc = "list" /\ run.requested # {})
          => continuation_token = response.NextContinuationToken
    /\ SweepDone =>
          /\ run.listed = ListedAtStart(run)
          /\ run.deleted = Eligible(run)
          /\ Eligible(run) \cap bucket = {}

\* C4 witness: a completed sweep over three pages or more that deleted an
\* object of the first page and an object of the third page.
C4_Witness ==
    /\ SweepDone
    /\ Cardinality(run.requested) >= 3
    /\ \E k \in run.deleted : ListedBefore(run, k) < PageSize
    /\ \E k \in run.deleted : ListedBefore(run, k) >= 2 * PageSize

---------------------------------------------------------------------------
(* C5 *)

\* C5 (as stated): of two sweeps in succession with the same retention
\* setting over a bucket nothing else changes, the first deletes the
\* eligible objects and the second deletes none.
C5_SecondSweepDeletesNothing ==
    (SweepDone /\ prev.valid) =>
        /\ prev.run.deleted = Eligible(prev.run)
        /\ run.deleted = {}

\* C5 (amended): of two sweeps in succession with the same retention
\* setting and the same cutoff (the clock reads the same for both) over a
\* bucket nothing else changes, the first deletes the eligible objects and
\* the second deletes none.
C5_SecondSweepSameCutoffDeletesNothing ==
    (SweepDone /\ prev.valid /\ CutoffOf(run) = CutoffOf(prev.run)) =>
        /\ prev.run.deleted = Eligible(prev.run)
        /\ run.start = prev.run.start \ prev.run.deleted
        /\ run.deleted = {}

\* C5 witness: a second sweep has completed with the cutoff of the first,
\* which had deleted an object and left one under the prefix.
C5_Witness ==
    /\ SweepDone
    /\ prev.valid
    /\ CutoffOf(run) = CutoffOf(prev.run)
    /\ prev.run.deleted # {}
    /\ ListedAtStart(run) # {}

---------------------------------------------------------------------------
(* C6 *)

\* C6 (as stated): the list get_user_databases returns holds none of the
\* four reserved names, every other name the server returned exactly once,
\* and no name the server did not return.
C6_FilteredListIsTheUserDatabases ==
    pc = "fetched" =>
        /\ \A n \in SYSTEM_DATABASES : n \notin Range(user_databases)
        /\ \A n \in Range(serverDbs) \ SYSTEM_DATABASES :
              Cardinality({i \in 1..Len(user_databases) :
                              user_databases[i] = n}) = 1
        /\ Range(user_databases) \subseteq Range(serverDbs)

---------------------------------------------------------------------------
(* C7 *)

\* C7 (as stated): when the server has no user databases (it lists nothing
\* or only reserved names), get_user_databases returns the empty sequence
\* and main ends with status 0, having started no dump, uploaded nothing
\* and deleted nothing.
C7_NoUserDatabasesIsNoOp ==
    (mysqlReturncode = 0 /\ Range(serverDbs) \subseteq SYSTEM_DATABASES) =>
        /\ pc \in {"fetched", "exit"} => user_databases = <<>>
        /\ pc = "exit" =>
              /\ exitStatus = 0
              /\ "mysqldump" \notin Range(spawned)
              /\ uploaded = {}
              /\ bucket = {3, 5, 8}

---------------------------------------------------------------------------
(* C8 *)

\* C8: a dump process that exits with a non-zero status makes
\* dump_databases raise to its caller, so the statements after the call
\* (the upload) are not reached.
C8_FailedDumpRaises ==
    (dumpCall.called /\ dumpCall.db_list # <<>> /\ dumpCall.returncode # 0)
        => dumpCall.raised = "CalledProcessError"

\* C8 witness: mysqldump was started for a non-empty list, exited with a
\* non-zero status, and the call raised.
C8_Witness ==
    /\ dumpCall.called
    /\ dumpCall.db_list # <<>>
    /\ dumpCall.returncode # 0
    /\ "mysqldump" \in Range(spawned)
    /\ dumpCall.raised # "None"

---------------------------------------------------------------------------
(* C9 *)

\* C9: dump_databases called with an empty list raises, and has started no
\* process and created no file.
C9_EmptyListFailsBeforeSpawn ==
    (dumpCall.called /\ dumpCall.db_list = <<>>) =>
        /\ dumpCall.raised = "ValueError"
        /\ spawned = dumpCall.spawnedBefore
        /\ files = dumpCall.filesBefore

\* C9 witness: dump_databases has been called with an empty list and
\* raised, with no process started and no file present.
C9_Witness ==
    /\ dumpCall.called
    /\ dumpCall.db_list = <<>>
    /\ dumpCall.raised = "ValueError"
    /\ spawned = <<>>
    /\ files = {}

---------------------------------------------------------------------------
(* C10 *)

\* C10 (as stated): a sweep requests each page at most once, and requests
\* no further page once a response has carried no continuation token, also
\* when that response was marked truncated.
C10_EachPageOnceStopWithoutToken ==
    /\ ~run.repeated
    /\ (spc = "list" /\ run.requested # {})
          => response.NextContinuationToken # 0

=============================================================================
